---- MODULE Spec2Model ----
(***************************************************************************)
(* Verification model of the Module_1 samples:                             *)
(*   - SensorProcessor (dataprocesingAlgo_sol.cpp, solution part)          *)
(*   - AlgorithmPipeline (stlAlgoPipeline_practice*.cpp)                   *)
(*   - transform_parallel_sim (stlAlgoPractice_3.cpp)                      *)
(*   - RangeIntegration (stl_iterator_functor_ranges.cpp)                  *)
(*   - ContainerSelector (sample4.cpp)                                     *)
(*   - FrequencyCounter (stl_iterator_functor_2.cpp)                       *)
(* Money is held in cents so that 8% and 10% of the modelled amounts are   *)
(* exact; a double is modelled by the exact value it stands for.           *)
(***************************************************************************)
EXTENDS Integers, Sequences, FiniteSets, TLC

VARIABLES
    sensorData,      \* unordered_map<int, SensorReading>
    locationIndex,   \* unordered_map<string, vector<int>>
    alertQueue,      \* priority_queue<Alert>: the underlying heap vector
    readingsLog,     \* history: every reading passed to addSensorReading
    added,           \* history: number of addAlert calls
    processed,       \* console: alerts displayed by processNextAlert, in order
    sinceAdd,        \* history: alerts displayed since the last addAlert
    call,            \* the last call on the processor and what it returned
    impl,            \* which of the three pipeline programs is running
    rawTransactions,     \* AlgorithmPipeline::rawTransactions
    validTransactions,   \* AlgorithmPipeline::validTransactions
    derived,         \* history: calculateDerivedValues ran on validTransactions
    stage,           \* the last pipeline stage run and the figures it printed
    performanceData,     \* demonstratePerformanceOptimization: the input
    standardResults,     \* what std::transform wrote
    parallelResults,     \* what transform_parallel_sim wrote
    chunk_size,      \* transform_parallel_sim: local chunk_size
    current,         \* transform_parallel_sim: local current (index from 1)
    output,          \* transform_parallel_sim: local output (index from 1)
    chunks,          \* history: <<current, chunk_end>> of every chunk processed
    returned,        \* the iterator transform_parallel_sim returned
    resultsMatch,    \* the "Results match" flag
    simPc,           \* position in demonstratePerformanceOptimization
    dataSource,      \* RangeIntegration::dataSource
    limited,         \* demonstrateTraditionalApproach: the values displayed
    pipelineResults, \* values the filter | transform | take(10) loop displayed
    lazyResults,     \* values the lazy pipeline's loop displayed
    lazyCalls,       \* console: calls of the lazy pipeline's two lambdas
    it,              \* the loop's counted_iterator: base position and length
    counts,          \* demonstrateFunctionObjectAdvantages: count1, count2
    applied,         \* the last IsMultipleOf call and what it did
    rngPc,           \* position in the RangeIntegration program
    request,         \* the arguments of the last analyzeRequirements call
    rec,             \* the ContainerRecommendation it returned
    m_frequencies,   \* FrequencyCounter::m_frequencies
    totalCount,      \* FrequencyCounter::totalCount
    sinceReset,      \* history: operator() arguments since construction/reset
    resets,          \* history: number of reset() calls
    query            \* the last getFrequency call and what it returned

sensorVars == <<sensorData, locationIndex, alertQueue, readingsLog, added,
                processed, sinceAdd, call>>

pipeVars == <<impl, rawTransactions, validTransactions, derived, stage>>

simVars == <<performanceData, standardResults, parallelResults, chunk_size,
             current, output, chunks, returned, resultsMatch, simPc>>

rangeVars == <<dataSource, limited, pipelineResults, lazyResults, lazyCalls,
               it, counts, applied, rngPc>>

selectorVars == <<request, rec>>

counterVars == <<m_frequencies, totalCount, sinceReset, resets, query>>

demoVars == <<simVars, rangeVars, selectorVars, counterVars>>

vars == <<sensorVars, pipeVars, demoVars>>

----------------------------------------------------------------------------
(* Bounds *)

MaxReadings == 2     \* addSensorReading calls in a behaviour of Spec
MaxQueued   == 1     \* addAlert calls in a behaviour of Spec
MaxAlerts   == 4     \* addAlert calls in a behaviour of AlertSpec

SensorIds      == {101, 102}
QueryIds       == SensorIds \cup {999}
Locations      == {"Building_A", "Building_B"}
QueryLocations == Locations \cup {"Building_Z"}
Values         == {45, 72}
Priorities     == {1, 3, 7, 9}
LowPriorities  == {1, 3, 9}

nullptr == 0         \* no node of sensorData has address 0

----------------------------------------------------------------------------
(* Data *)

SensorReading(id, loc, type, val) ==
    [sensorId |-> id, location |-> loc, sensorType |-> type, value |-> val]

Alert(p, msg, type) == [priority |-> p, message |-> msg, alertType |-> type]

\* the comparison reversed (a min-heap)
AlertComparatorReversed(a, b) == a.priority > b.priority

AlertComparator(a, b) == a.priority < b.priority

----------------------------------------------------------------------------
(* std::priority_queue<Alert, vector<Alert>, AlertComparator>: a binary    *)
(* heap kept in a vector by push_heap / pop_heap under the comparator.     *)

Swap(v, i, j) == [v EXCEPT ![i] = v[j], ![j] = v[i]]

RECURSIVE SiftUp(_, _)
SiftUp(v, i) ==
    IF i > 1 /\ AlertComparator(v[i \div 2], v[i])
    THEN SiftUp(Swap(v, i, i \div 2), i \div 2)
    ELSE v

RECURSIVE SiftDown(_, _, _)
SiftDown(v, i, n) ==
    LET l  == 2 * i
        r  == 2 * i + 1
        m1 == IF l <= n /\ AlertComparator(v[i], v[l]) THEN l ELSE i
        m2 == IF r <= n /\ AlertComparator(v[m1], v[r]) THEN r ELSE m1
    IN  IF m2 = i THEN v ELSE SiftDown(Swap(v, i, m2), m2, n)

queue_push(q, a) == SiftUp(Append(q, a), Len(q) + 1)

queue_top(q) == q[1]

\* pop_back without pop_heap: drops the last element of the vector
queue_pop_back(q) == SubSeq(q, 1, Len(q) - 1)

queue_pop(q) ==
    LET n == Len(q)
    IN  SubSeq(SiftDown(Swap(q, 1, n), 1, n - 1), 1, n - 1)

----------------------------------------------------------------------------
(* SensorProcessor *)

NoCall == [op |-> "none", id |-> 0, loc |-> "", ptr |-> nullptr,
           vec |-> <<>>, msg |-> ""]

MapPut(m, k, v) == [x \in DOMAIN m \cup {k} |-> IF x = k THEN v ELSE m[x]]

NoStage ==
    [op |-> "none", cleared |-> 0, valid |-> 0, invalid |-> 0,
     rate |-> <<0, 1>>, total |-> 0, average |-> <<0, 1>>, highValue |-> 0,
     highRate |-> <<0, 1>>, highest |-> 0, lowest |-> 0, ub |-> FALSE,
     sorted |-> <<>>, top |-> <<>>, listing |-> <<>>]

SensorConstructed ==
    /\ sensorData = <<>>
    /\ locationIndex = <<>>
    /\ alertQueue = <<>>
    /\ readingsLog = <<>>
    /\ added = 0
    /\ processed = <<>>
    /\ sinceAdd = 0
    /\ call = NoCall

PipelineConstructed ==
    /\ rawTransactions = <<>>
    /\ validTransactions = <<>>
    /\ derived = FALSE
    /\ stage = NoStage

\* demonstratePerformanceOptimization has not been entered
SimIdle ==
    /\ performanceData = <<>>
    /\ standardResults = <<>>
    /\ parallelResults = <<>>
    /\ chunk_size = 0
    /\ current = 0
    /\ output = 0
    /\ chunks = <<>>
    /\ returned = 0
    /\ resultsMatch = FALSE
    /\ simPc = "idle"

NoIterator == [pos |-> 0, length |-> 0]
NoCounts   == [divisor |-> 0, count1 |-> 0, count2 |-> 0]
NoApplied  == [divisor |-> 0, value |-> 0, ret |-> FALSE, divByZero |-> FALSE]

\* a RangeIntegration whose demonstrations have not run
RangeConstructed ==
    /\ limited = <<>>
    /\ pipelineResults = <<>>
    /\ lazyResults = <<>>
    /\ lazyCalls = <<>>
    /\ it = NoIterator
    /\ counts = NoCounts
    /\ applied = NoApplied

RangeIdle ==
    /\ dataSource = <<>>
    /\ RangeConstructed
    /\ rngPc = "idle"

NoRequest == [pattern |-> "none", needsOrder |-> FALSE,
              uniqueElements |-> FALSE, expectedSize |-> 0]
NoRecommendation == [containerType |-> ""]

\* no analyzeRequirements call yet
SelectorIdle ==
    /\ request = NoRequest
    /\ rec = NoRecommendation

NoQuery == [value |-> 0, ret |-> 0, asked |-> FALSE]

\* FrequencyCounter() : totalCount(0) {}
CounterConstructed ==
    /\ m_frequencies = <<>>
    /\ totalCount = 0
    /\ sinceReset = <<>>
    /\ resets = 0
    /\ query = NoQuery

DemosIdle ==
    /\ SimIdle
    /\ RangeIdle
    /\ SelectorIdle
    /\ CounterConstructed

Init ==
    /\ SensorConstructed
    /\ DemosIdle
    /\ impl = "ref"
    /\ PipelineConstructed

\* sensorData.insert(...) in place of operator[]: an existing id is kept
addSensorReadingInsert(reading) ==
    /\ sensorData' = IF reading.sensorId \in DOMAIN sensorData
                     THEN sensorData
                     ELSE MapPut(sensorData, reading.sensorId, reading)
    /\ locationIndex' =
         MapPut(locationIndex, reading.location,
                Append(IF reading.location \in DOMAIN locationIndex
                       THEN locationIndex[reading.location] ELSE <<>>,
                       reading.sensorId))
    /\ readingsLog' = Append(readingsLog, reading)
    /\ call' = [NoCall EXCEPT !.op = "addSensorReading",
                              !.id = reading.sensorId,
                              !.loc = reading.location,
                              !.msg = "Added sensor"]
    /\ UNCHANGED pipeVars
    /\ UNCHANGED demoVars
    /\ UNCHANGED <<alertQueue, added, processed, sinceAdd>>

addSensorReading(reading) ==
    /\ sensorData' = MapPut(sensorData, reading.sensorId, reading)
    /\ locationIndex' =
         MapPut(locationIndex, reading.location,
                Append(IF reading.location \in DOMAIN locationIndex
                       THEN locationIndex[reading.location] ELSE <<>>,
                       reading.sensorId))
    /\ readingsLog' = Append(readingsLog, reading)
    /\ call' = [NoCall EXCEPT !.op = "addSensorReading",
                              !.id = reading.sensorId,
                              !.loc = reading.location,
                              !.msg = "Added sensor"]
    /\ UNCHANGED pipeVars
    /\ UNCHANGED demoVars
    /\ UNCHANGED <<alertQueue, added, processed, sinceAdd>>

addAlert(alert) ==
    /\ alertQueue' = queue_push(alertQueue, alert)
    /\ added' = added + 1
    /\ sinceAdd' = 0
    /\ call' = [NoCall EXCEPT !.op = "addAlert", !.msg = "Added alert"]
    /\ UNCHANGED pipeVars
    /\ UNCHANGED demoVars
    /\ UNCHANGED <<sensorData, locationIndex, readingsLog, processed>>

\* the empty() test left out: the "Processing" line is printed regardless
processNextAlertUnguarded ==
    /\ call' = [NoCall EXCEPT !.op = "processNextAlert",
                              !.msg = "Processing Priority"]
    /\ IF alertQueue = <<>>
       THEN UNCHANGED <<alertQueue, processed, sinceAdd>>
       ELSE /\ processed' = Append(processed, queue_top(alertQueue))
            /\ sinceAdd' = sinceAdd + 1
            /\ alertQueue' = queue_pop(alertQueue)
    /\ UNCHANGED pipeVars
    /\ UNCHANGED demoVars
    /\ UNCHANGED <<sensorData, locationIndex, readingsLog, added>>

processNextAlert ==
    IF alertQueue = <<>>
    THEN /\ call' = [NoCall EXCEPT !.op = "processNextAlert",
                        !.msg = "No alerts to process - queue is empty"]
         /\ UNCHANGED pipeVars
         /\ UNCHANGED demoVars
         /\ UNCHANGED <<sensorData, locationIndex, alertQueue, readingsLog,
                        added, processed, sinceAdd>>
    ELSE LET currentAlert == queue_top(alertQueue)
         IN  /\ processed' = Append(processed, currentAlert)
             /\ sinceAdd' = sinceAdd + 1
             /\ alertQueue' = queue_pop(alertQueue)
             /\ call' = [NoCall EXCEPT !.op = "processNextAlert",
                                       !.msg = "Processing Priority"]
             /\ UNCHANGED pipeVars
             /\ UNCHANGED demoVars
             /\ UNCHANGED <<sensorData, locationIndex, readingsLog, added>>

\* Pointers into sensorData are modelled by the key of the node pointed to.
findSensorByIdResult(sensorId) ==
    IF sensorId \in DOMAIN sensorData THEN sensorId ELSE nullptr

findSensorById(sensorId) ==
    /\ call' = [NoCall EXCEPT !.op = "findSensorById", !.id = sensorId,
                              !.ptr = findSensorByIdResult(sensorId)]
    /\ UNCHANGED pipeVars
    /\ UNCHANGED demoVars
    /\ UNCHANGED <<sensorData, locationIndex, alertQueue, readingsLog, added,
                   processed, sinceAdd>>

getSensorsByLocationResult(location) ==
    IF location \in DOMAIN locationIndex
    THEN SelectSeq(locationIndex[location],
                   LAMBDA sensorId : sensorId \in DOMAIN sensorData)
    ELSE <<>>

\* locationIndex[location] in place of find(): the lookup inserts the key
getSensorsByLocationBracket(location) ==
    /\ call' = [NoCall EXCEPT !.op = "getSensorsByLocation", !.loc = location,
                              !.vec = getSensorsByLocationResult(location)]
    /\ locationIndex' = IF location \in DOMAIN locationIndex
                        THEN locationIndex
                        ELSE MapPut(locationIndex, location, <<>>)
    /\ UNCHANGED pipeVars
    /\ UNCHANGED demoVars
    /\ UNCHANGED <<sensorData, alertQueue, readingsLog, added,
                   processed, sinceAdd>>

getSensorsByLocation(location) ==
    /\ call' = [NoCall EXCEPT !.op = "getSensorsByLocation", !.loc = location,
                              !.vec = getSensorsByLocationResult(location)]
    /\ UNCHANGED pipeVars
    /\ UNCHANGED demoVars
    /\ UNCHANGED <<sensorData, locationIndex, alertQueue, readingsLog, added,
                   processed, sinceAdd>>

Deref(ptr) == sensorData[ptr]

----------------------------------------------------------------------------
(* Specifications of the SensorProcessor *)

AddSensorReadingStep ==
    \E id \in SensorIds, loc \in Locations, val \in Values :
        /\ Len(readingsLog) < MaxReadings
        /\ addSensorReading(SensorReading(id, loc, "temperature", val))

AddAlertStep(prios, cap) ==
    \E p \in prios :
        /\ added < cap
        /\ addAlert(Alert(p, added + 1, "WARNING"))

FindSensorByIdStep == \E id \in QueryIds : findSensorById(id)

GetSensorsByLocationStep == \E loc \in QueryLocations : getSensorsByLocation(loc)

Next ==
    \/ AddSensorReadingStep
    \/ AddAlertStep(LowPriorities, MaxQueued)
    \/ processNextAlert
    \/ FindSensorByIdStep
    \/ GetSensorsByLocationStep

Spec == Init /\ [][Next]_vars

AlertNext ==
    \/ AddAlertStep(Priorities, MaxAlerts)
    \/ processNextAlert

AlertSpec == Init /\ [][AlertNext]_vars

----------------------------------------------------------------------------
(* Helpers of the properties *)

Range(s) == {s[i] : i \in 1..Len(s)}

Last(s) == s[Len(s)]

MaxPriority(q) ==
    CHOOSE p \in {a.priority : a \in Range(q)} :
        \A a \in Range(q) : a.priority <= p

LogOf(id) == SelectSeq(readingsLog, LAMBDA r : r.sensorId = id)

Displayed == Len(processed') = Len(processed) + 1

EmptyMsg == "No alerts to process - queue is empty"

SensorState == <<sensorData, locationIndex, alertQueue, readingsLog, added,
                 processed, sinceAdd>>

----------------------------------------------------------------------------
\* C1: every alert displayed by processNextAlert has the highest priority of
\* the alerts queued at that moment, and while no alert is added the
\* displayed priorities never increase.
HighestPriorityFirst ==
    [][Displayed =>
         /\ Last(processed').priority = MaxPriority(alertQueue)
         /\ sinceAdd > 0 =>
              Last(processed').priority <= Last(processed).priority]_vars

\* 3, 9, 1, 7 were added in that order and drained as 9, 7, 3, 1
DrainedNineSevenThreeOne ==
    /\ alertQueue = <<>>
    /\ sinceAdd = 4
    /\ processed = <<Alert(9, 2, "WARNING"), Alert(7, 4, "WARNING"),
                     Alert(3, 1, "WARNING"), Alert(1, 3, "WARNING")>>

\* C2: processNextAlert on an empty queue prints the empty-queue line and
\* changes neither the queue nor the sensor map nor the location index; an
\* alert added to the empty queue is then the one the next call displays.
EmptyQueueIsReported ==
    [][/\ (alertQueue = <<>> /\ call'.op = "processNextAlert") =>
            /\ call'.msg = EmptyMsg
            /\ UNCHANGED <<alertQueue, sensorData, locationIndex>>
       /\ (call.msg = EmptyMsg /\ call'.op = "addAlert") =>
            Len(alertQueue') = 1
       /\ (Len(alertQueue) = 1 /\ call'.op = "processNextAlert") =>
            /\ processed' = Append(processed, alertQueue[1])
            /\ alertQueue' = <<>>]_vars

\* the empty-queue line was printed while sensors were stored, after an
\* alert had already been displayed
EmptyReportedWithSensors ==
    /\ call.op = "processNextAlert"
    /\ call.msg = EmptyMsg
    /\ DOMAIN sensorData # {}
    /\ DOMAIN locationIndex # {}
    /\ processed # <<>>

\* C3: findSensorById returns nullptr exactly for the ids never passed to
\* addSensorReading, and otherwise points at the reading of the most recent
\* addSensorReading with that id.
FindReturnsLatestReading ==
    /\ \A id \in QueryIds :
         LET r == findSensorByIdResult(id)
         IN  /\ (r = nullptr) <=> (LogOf(id) = <<>>)
             /\ r # nullptr => Deref(r) = Last(LogOf(id))
    /\ call.op = "findSensorById" =>
         /\ (call.ptr = nullptr) <=> (LogOf(call.id) = <<>>)
         /\ call.ptr # nullptr => Deref(call.ptr) = Last(LogOf(call.id))

\* a sensor added twice with different readings was looked up
FoundReaddedSensor ==
    /\ call.op = "findSensorById"
    /\ call.ptr # nullptr
    /\ Len(LogOf(call.id)) = 2
    /\ LogOf(call.id)[1] # LogOf(call.id)[2]

\* C4: getSensorsByLocation(L) returns exactly the stored sensors whose
\* location is L, each of them once.
LocationQueryIsExact ==
    call.op = "getSensorsByLocation" =>
        /\ \A i \in 1..Len(call.vec) : Deref(call.vec[i]).location = call.loc
        /\ \A id \in DOMAIN sensorData :
             sensorData[id].location = call.loc => id \in Range(call.vec)
        /\ \A i, j \in 1..Len(call.vec) : call.vec[i] = call.vec[j] => i = j

\* C5: a query for a location or an id that was never added returns the
\* empty vector or nullptr and changes no state of the processor.
UnknownKeyQueriesAreReads ==
    [][/\ (call'.op = "getSensorsByLocation"
            /\ \A i \in 1..Len(readingsLog) :
                   readingsLog[i].location # call'.loc) =>
            /\ call'.vec = <<>>
            /\ UNCHANGED SensorState
       /\ (call'.op = "findSensorById" /\ LogOf(call'.id) = <<>>) =>
            /\ call'.ptr = nullptr
            /\ UNCHANGED SensorState]_vars

\* Building_Z was queried while sensors were stored elsewhere
QueriedBuildingZ ==
    /\ call.op = "getSensorsByLocation"
    /\ call.loc = "Building_Z"
    /\ call.vec = <<>>
    /\ DOMAIN sensorData # {}

\* C6: the queue holds exactly the alerts added and not yet displayed: its
\* size is the number of addAlert calls minus the number of alerts
\* displayed, no alert is displayed twice, and once the queue is empty every
\* added alert has been displayed.
QueueHoldsUndisplayedAlerts ==
    LET queued == {a.message : a \in Range(alertQueue)}
        shown  == {a.message : a \in Range(processed)}
    IN  /\ Len(alertQueue) = added - Len(processed)
        /\ Cardinality(shown) = Len(processed)
        /\ Cardinality(queued) = Len(alertQueue)
        /\ queued \cap shown = {}
        /\ queued \cup shown = 1..added
        /\ alertQueue = <<>> => shown = 1..added

\* three or more alerts were added and all of them displayed
DrainedAll ==
    /\ added >= 3
    /\ alertQueue = <<>>
    /\ Len(processed) = added

----------------------------------------------------------------------------
(* AlgorithmPipeline: stlAlgoPipeline_practice_range_ref.cpp ("ref"),      *)
(* stlAlgoPipeline_practice.cpp ("practice") and                           *)
(* stlAlgoPipeline_practice_range.cpp ("range").                           *)

MaxLen   == 3        \* longest dataset PipeSpec starts from
NumSeeds == 17       \* random_device outcomes GenSpec draws from

DATASET_SIZE       == 1000
TAX_RATE           == 8          \* percent
DISCOUNT_THRESHOLD == 100000     \* cents
DISCOUNT_RATE      == 10         \* percent

Impls       == {"ref", "practice", "range"}
CustomerIds == {"", "CUST_1"}
Amounts     == {-100, 0, 50000, 100000, 150000}
Seeds       == 0..(NumSeeds - 1)
regions     == <<"North", "South", "East", "West">>

Transaction(i, cust, amt, reg) ==
    [id |-> i, customerId |-> cust, amount |-> amt, region |-> reg,
     taxAmount |-> 0, discount |-> 0, finalTotal |-> amt]

Percent(x, rate) == (x * rate) \div 100

\* ---- function objects and helpers, file by file ----

IsValidTransaction_ref(t) == t.amount > 0 /\ ~(t.customerId = "")

hasValidAmount_practice(t) == t.amount > 0

hasValidCustomer_practice(t) == Len(t.customerId) > 0

IsValidTransaction_practice(t) ==
    hasValidAmount_practice(t) /\ hasValidCustomer_practice(t)

IsValidTransaction_range(t) == t.amount > 0 /\ ~(t.customerId = "")

IsHighValueTransaction(t) == t.finalTotal > 50000

\* the discount granted from the threshold on (>= for >)
CalculateDerivedValues_ref_inclusive(t) ==
    LET tax == Percent(t.amount, TAX_RATE)
        dis == IF t.amount >= DISCOUNT_THRESHOLD
               THEN Percent(t.amount, DISCOUNT_RATE) ELSE 0
    IN  [t EXCEPT !.taxAmount = tax, !.discount = dis,
                  !.finalTotal = t.amount + tax - dis]

CalculateDerivedValues_ref(t) ==
    LET tax == Percent(t.amount, TAX_RATE)
        dis == IF t.amount > DISCOUNT_THRESHOLD
               THEN Percent(t.amount, DISCOUNT_RATE) ELSE 0
    IN  [t EXCEPT !.taxAmount = tax, !.discount = dis,
                  !.finalTotal = t.amount + tax - dis]

CalculateDerivedValues_practice(t) ==
    LET tax == Percent(t.amount, TAX_RATE)
        dis == IF t.amount > DISCOUNT_THRESHOLD
               THEN Percent(t.amount, DISCOUNT_RATE) ELSE 0
    IN  [t EXCEPT !.taxAmount = tax, !.discount = dis,
                  !.finalTotal = t.amount + tax - dis]

CalculateDerivedValues_range(t) ==
    LET tax == Percent(t.amount, TAX_RATE)
        dis == IF t.amount > DISCOUNT_THRESHOLD
               THEN Percent(t.amount, DISCOUNT_RATE) ELSE 0
    IN  [t EXCEPT !.taxAmount = tax, !.discount = dis,
                  !.finalTotal = t.amount + tax - dis]

\* finalTotal ascending (< for >)
compareByFinalTotal_ascending(a, b) == a.finalTotal < b.finalTotal

compareByFinalTotal(a, b) == a.finalTotal > b.finalTotal

addFinalTotal(sum, t) == sum + t.finalTotal

\* std::minmax_element under a.finalTotal < b.finalTotal: <<first smallest,
\* last largest>>; Len(s) + 1 is the end iterator
minmax_element(s) ==
    LET n == Len(s)
        smallest(i) == \A j \in 1..n : ~(s[j].finalTotal < s[i].finalTotal)
        largest(i)  == \A j \in 1..n : ~(s[i].finalTotal < s[j].finalTotal)
    IN  IF n = 0 THEN <<1, 1>>
        ELSE <<CHOOSE i \in 1..n :
                   smallest(i) /\ \A k \in 1..(i - 1) : ~smallest(k),
               CHOOSE i \in 1..n :
                   largest(i) /\ \A k \in (i + 1)..n : ~largest(k)>>

Crashed == stage.op = "crashed"

\* ---- GRADED CHALLENGE 1 ----

\* validTransactions.clear() left out: the copy is appended to the old content
filterValidTransactions_ref_noclear ==
    /\ impl = "ref"
    /\ ~Crashed
    /\ LET kept == SelectSeq(rawTransactions, IsValidTransaction_ref)
           now  == validTransactions \o kept
           invalidCount == Len(rawTransactions) - Len(now)
       IN  /\ validTransactions' = now
           /\ stage' = [NoStage EXCEPT
                 !.op = "filterValidTransactions",
                 !.cleared = 0,
                 !.valid = Len(now),
                 !.invalid = invalidCount,
                 !.rate = <<100 * Len(now), Len(rawTransactions)>>]
    /\ derived' = FALSE
    /\ UNCHANGED <<impl, rawTransactions>>
    /\ UNCHANGED sensorVars
    /\ UNCHANGED demoVars

filterValidTransactions_ref ==
    /\ impl = "ref"
    /\ ~Crashed
    /\ LET kept == SelectSeq(rawTransactions, IsValidTransaction_ref)
           invalidCount == Len(rawTransactions) - Len(kept)
       IN  /\ validTransactions' = kept
           /\ stage' = [NoStage EXCEPT
                 !.op = "filterValidTransactions",
                 !.cleared = Len(validTransactions),
                 !.valid = Len(kept),
                 !.invalid = invalidCount,
                 !.rate = <<100 * Len(kept), Len(rawTransactions)>>]
    /\ derived' = FALSE
    /\ UNCHANGED <<impl, rawTransactions>>
    /\ UNCHANGED sensorVars
    /\ UNCHANGED demoVars

filterValidTransactions_practice ==
    /\ impl = "practice"
    /\ ~Crashed
    /\ LET kept == SelectSeq(rawTransactions, IsValidTransaction_practice)
           invalid_count ==
               Len(SelectSeq(rawTransactions,
                             LAMBDA t : ~IsValidTransaction_practice(t)))
       IN  /\ validTransactions' = kept
           /\ stage' = [NoStage EXCEPT
                 !.op = "filterValidTransactions",
                 !.cleared = Len(validTransactions),
                 !.valid = Len(kept),
                 !.invalid = invalid_count]
    /\ derived' = FALSE
    /\ UNCHANGED <<impl, rawTransactions>>
    /\ UNCHANGED sensorVars
    /\ UNCHANGED demoVars

filterValidTransactions_range ==
    /\ impl = "range"
    /\ ~Crashed
    /\ LET kept == SelectSeq(rawTransactions, IsValidTransaction_range)
           invalid_count ==
               Len(SelectSeq(rawTransactions,
                             LAMBDA t : ~IsValidTransaction_range(t)))
       IN  /\ validTransactions' = kept
           /\ stage' = [NoStage EXCEPT
                 !.op = "filterValidTransactions",
                 !.cleared = Len(validTransactions),
                 !.valid = Len(kept),
                 !.invalid = invalid_count]
    /\ derived' = FALSE
    /\ UNCHANGED <<impl, rawTransactions>>
    /\ UNCHANGED sensorVars
    /\ UNCHANGED demoVars

\* ---- GRADED CHALLENGE 2 ----

calculateDerivedValues ==
    /\ ~Crashed
    /\ validTransactions' =
         CASE impl = "ref" ->
                [i \in 1..Len(validTransactions) |->
                    CalculateDerivedValues_ref(validTransactions[i])]
           [] impl = "practice" ->
                [i \in 1..Len(validTransactions) |->
                    CalculateDerivedValues_practice(validTransactions[i])]
           [] impl = "range" ->
                [i \in 1..Len(validTransactions) |->
                    CalculateDerivedValues_range(validTransactions[i])]
    /\ derived' = TRUE
    /\ stage' = [NoStage EXCEPT !.op = "calculateDerivedValues",
                                !.valid = Len(validTransactions)]
    /\ UNCHANGED <<impl, rawTransactions>>
    /\ UNCHANGED sensorVars
    /\ UNCHANGED demoVars

\* ---- GRADED CHALLENGE 3 ----

\* Dereferencing the end iterators of an empty range is undefined: the run
\* either stops there or prints whatever the read yields.
generateStatistics_ref ==
    /\ impl = "ref"
    /\ ~Crashed
    /\ LET n == Len(validTransactions)
           acc[i \in 0..n] ==
               IF i = 0 THEN 0
               ELSE addFinalTotal(acc[i - 1], validTransactions[i])
           totalRevenue == acc[n]
           highValueCount == Len(SelectSeq(validTransactions, IsHighValueTransaction))
           mm == minmax_element(validTransactions)
           figures == [NoStage EXCEPT
                 !.op = "generateStatistics",
                 !.valid = n,
                 !.total = totalRevenue,
                 !.average = <<totalRevenue, n>>,
                 !.highValue = highValueCount,
                 !.highRate = <<100 * highValueCount, n>>]
       IN  IF n = 0
           THEN \/ stage' = [NoStage EXCEPT !.op = "crashed", !.ub = TRUE]
                \/ \E hi, lo \in {-1, 0} :
                       stage' = [figures EXCEPT !.highest = hi, !.lowest = lo,
                                                !.ub = TRUE]
           ELSE stage' = [figures EXCEPT
                    !.highest = validTransactions[mm[2]].finalTotal,
                    !.lowest = validTransactions[mm[1]].finalTotal]
    /\ UNCHANGED <<impl, rawTransactions, validTransactions, derived>>
    /\ UNCHANGED sensorVars
    /\ UNCHANGED demoVars

\* min_max is computed and never read
generateStatistics_practice ==
    /\ impl = "practice"
    /\ ~Crashed
    /\ LET n == Len(validTransactions)
           acc[i \in 0..n] ==
               IF i = 0 THEN 0 ELSE acc[i - 1] + validTransactions[i].amount
           totalRevenue == acc[n]
           highValueCount == Len(SelectSeq(validTransactions, IsHighValueTransaction))
           average == <<totalRevenue, n>>
       IN  stage' = [NoStage EXCEPT
                 !.op = "generateStatistics",
                 !.valid = n,
                 !.total = totalRevenue,
                 !.average = average,
                 !.highValue = highValueCount]
    /\ UNCHANGED <<impl, rawTransactions, validTransactions, derived>>
    /\ UNCHANGED sensorVars
    /\ UNCHANGED demoVars

\* min_max is computed and never read
generateStatistics_range ==
    /\ impl = "range"
    /\ ~Crashed
    /\ LET n == Len(validTransactions)
           acc[i \in 0..n] ==
               IF i = 0 THEN 0 ELSE acc[i - 1] + validTransactions[i].amount
           totalRevenue == acc[n]
           highValueCount == Len(SelectSeq(validTransactions, IsHighValueTransaction))
           average == <<totalRevenue, n>>
       IN  stage' = [NoStage EXCEPT
                 !.op = "generateStatistics",
                 !.valid = n,
                 !.total = totalRevenue,
                 !.average = average,
                 !.highValue = highValueCount]
    /\ UNCHANGED <<impl, rawTransactions, validTransactions, derived>>
    /\ UNCHANGED sensorVars
    /\ UNCHANGED demoVars

\* ---- generateTestData ----

\* the draws of the two distributions for the seed rd at iteration i
amountDist(rd, i) == 100 * (10 + (((rd + 1) * (i + 7)) % 1990))

customerDist(rd, i) == 1 + ((rd * 31 + i) % 100)

generateTestData(count, rd) ==
    /\ ~Crashed
    /\ rawTransactions' = rawTransactions \o
         [k \in 1..count |->
            LET i == k - 1
                amount == IF i % 50 = 0 THEN -100 ELSE amountDist(rd, i)
                customerId == IF i % 75 = 0 THEN ""
                              ELSE "CUST_" \o ToString(customerDist(rd, i))
            IN  Transaction(i, customerId, amount, regions[(i % 4) + 1])]
    /\ stage' = [NoStage EXCEPT !.op = "generateTestData"]
    /\ UNCHANGED <<impl, validTransactions, derived>>
    /\ UNCHANGED sensorVars
    /\ UNCHANGED demoVars

----------------------------------------------------------------------------
(* Specifications of the AlgorithmPipeline *)

Datasets ==
    UNION {{[k \in 1..n |->
               Transaction(k - 1, f[k][1], f[k][2], regions[((k - 1) % 4) + 1])] :
            f \in [1..n -> CustomerIds \X Amounts]} : n \in 0..MaxLen}

PipeInit ==
    /\ SensorConstructed
    /\ DemosIdle
    /\ impl \in Impls
    /\ rawTransactions \in Datasets
    /\ validTransactions = <<>>
    /\ derived = FALSE
    /\ stage = NoStage

PipeNext ==
    \/ filterValidTransactions_ref
    \/ filterValidTransactions_practice
    \/ filterValidTransactions_range
    \/ calculateDerivedValues
    \/ generateStatistics_ref
    \/ generateStatistics_practice
    \/ generateStatistics_range

PipeSpec == PipeInit /\ [][PipeNext]_vars

GenInit ==
    /\ SensorConstructed
    /\ DemosIdle
    /\ impl \in Impls
    /\ PipelineConstructed

GenerateStep ==
    \E rd \in Seeds :
        /\ rawTransactions = <<>>
        /\ generateTestData(DATASET_SIZE, rd)

GenNext ==
    \/ GenerateStep
    \/ filterValidTransactions_ref
    \/ filterValidTransactions_practice
    \/ filterValidTransactions_range

GenSpec == GenInit /\ [][GenNext]_vars

----------------------------------------------------------------------------
(* Helpers of the pipeline properties *)

IsValidRecord(t) == t.amount > 0 /\ t.customerId # ""

RECURSIVE SumFinalTotal(_)
SumFinalTotal(s) ==
    IF s = <<>> THEN 0 ELSE Head(s).finalTotal + SumFinalTotal(Tail(s))

\* C7: after filterValidTransactions, validTransactions is the subsequence
\* of rawTransactions with amount > 0 and a non-empty customerId, in the
\* original order and with nothing left of its previous content, and the
\* reported valid and invalid counts add up to rawTransactions.size().
FilterKeepsValidSubsequence ==
    stage.op = "filterValidTransactions" =>
        /\ validTransactions = SelectSeq(rawTransactions, IsValidRecord)
        /\ stage.valid = Len(validTransactions)
        /\ stage.invalid =
             Cardinality({i \in 1..Len(rawTransactions) :
                            ~IsValidRecord(rawTransactions[i])})
        /\ stage.valid + stage.invalid = Len(rawTransactions)

\* a second filtering threw away earlier content and dropped both kinds of
\* invalid record
RefilteredMixedDataset ==
    /\ stage.op = "filterValidTransactions"
    /\ stage.cleared > 0
    /\ stage.valid > 0
    /\ \E i \in 1..Len(rawTransactions) : rawTransactions[i].amount <= 0
    /\ \E i \in 1..Len(rawTransactions) :
          /\ rawTransactions[i].amount > 0
          /\ rawTransactions[i].customerId = ""

\* C8: on the dataset of generateTestData(1000) the filter reports 947 valid
\* and 53 invalid transactions.
ThousandGives947And53 ==
    (stage.op = "filterValidTransactions"
        /\ Len(rawTransactions) = DATASET_SIZE) =>
        /\ stage.valid = 947
        /\ stage.invalid = 53

\* C9: once calculateDerivedValues has run, every valid transaction has
\* taxAmount = 8% of amount, discount = 10% of amount if amount > 1000 and 0
\* otherwise, and finalTotal = amount + taxAmount - discount.
DerivedValuesHold ==
    derived =>
        \A i \in 1..Len(validTransactions) :
            LET t == validTransactions[i]
            IN  /\ 100 * t.taxAmount = 8 * t.amount
                /\ t.amount > 100000 => 10 * t.discount = t.amount
                /\ t.amount <= 100000 => t.discount = 0
                /\ t.finalTotal = t.amount + t.taxAmount - t.discount

\* derived values stand for an amount of exactly 1000 and for one above it
DerivedAtAndAboveThreshold ==
    /\ derived
    /\ stage.op = "calculateDerivedValues"
    /\ \E i \in 1..Len(validTransactions) :
          /\ validTransactions[i].amount = 100000
          /\ validTransactions[i].finalTotal = 108000
    /\ \E i \in 1..Len(validTransactions) :
          /\ validTransactions[i].amount = 150000
          /\ validTransactions[i].discount = 15000

\* C10: on a dataset with derived values, generateStatistics of each of the
\* three programs reports the sum of finalTotal as total revenue and that
\* sum over the number of valid transactions as the average.
TotalRevenueIsSumOfFinalTotal ==
    (stage.op = "generateStatistics" /\ derived) =>
        /\ stage.total = SumFinalTotal(validTransactions)
        /\ stage.average =
             <<SumFinalTotal(validTransactions), Len(validTransactions)>>

----------------------------------------------------------------------------
(* GRADED CHALLENGE 4: sortAndRank *)

MaxRank  == 4        \* longest dataset RankSpec starts from
MaxCount == 17       \* largest generateTestData(count) in RankSpec

RankAmounts == {50000, 150000}
RankRegions == {"East", "North"}
RankSeeds   == {0, 3}

Min(a, b) == IF a < b THEN a ELSE b

Reverse(s) == [i \in 1..Len(s) |-> s[Len(s) + 1 - i]]

\* std::string operator< on the region names
RegionRank(r) ==
    CASE r = "East" -> 1 [] r = "North" -> 2 [] r = "South" -> 3
      [] r = "West" -> 4 [] OTHER -> 0

\* regions ordered downwards, as the practice files have it
compareByRegionThenAmount_descending(a, b) ==
    IF a.region = b.region
    THEN a.finalTotal > b.finalTotal
    ELSE RegionRank(a.region) > RegionRank(b.region)

compareByRegionThenAmount_ref(a, b) ==
    IF a.region # b.region
    THEN RegionRank(a.region) < RegionRank(b.region)
    ELSE a.finalTotal > b.finalTotal

compareByRegionThenAmount_practice(a, b) ==
    IF a.region = b.region
    THEN a.finalTotal > b.finalTotal
    ELSE RegionRank(a.region) > RegionRank(b.region)

compareByRegionThenAmount_range(a, b) ==
    IF a.region = b.region
    THEN a.finalTotal > b.finalTotal
    ELSE RegionRank(a.region) > RegionRank(b.region)

\* the comparison function passed to a sorting algorithm, by name
Compare(cmp, a, b) ==
    CASE cmp = "compareByFinalTotal" -> compareByFinalTotal(a, b)
      [] cmp = "compareByRegionThenAmount_ref" ->
             compareByRegionThenAmount_ref(a, b)
      [] cmp = "compareByRegionThenAmount_practice" ->
             compareByRegionThenAmount_practice(a, b)
      [] cmp = "compareByRegionThenAmount_range" ->
             compareByRegionThenAmount_range(a, b)

\* std::sort leaves the order of equivalent elements unspecified: ties says
\* whether an element lands behind ("keep") or before ("flip") its equals.
SortInsert(done, x, cmp, ties) ==
    LET before == {j \in 1..Len(done) :
                     IF ties = "keep" THEN ~Compare(cmp, x, done[j])
                     ELSE Compare(cmp, done[j], x)}
        k == Cardinality(before)
    IN  SubSeq(done, 1, k) \o <<x>> \o SubSeq(done, k + 1, Len(done))

sort(s, cmp, ties) ==
    LET f[i \in 0..Len(s)] ==
            IF i = 0 THEN <<>> ELSE SortInsert(f[i - 1], s[i], cmp, ties)
    IN  f[Len(s)]

\* std::partial_sort: [first, middle) sorted, the order of the rest
\* unspecified (rest says which of two orders it is left in)
partial_sort(s, middle, cmp, ties, rest) ==
    LET t == sort(s, cmp, ties)
        tail == SubSeq(t, middle + 1, Len(t))
    IN  SubSeq(t, 1, middle) \o
        (IF rest = "reversed" THEN Reverse(tail) ELSE tail)

TieOrders  == {"keep", "flip"}
RestOrders == {"sorted", "reversed"}

\* the regional listing loop of the reference solution: a header per change
\* of region, then the first 3 transactions of the region
RegionalTop_ref(s) ==
    LET f[i \in 0..Len(s)] ==
            IF i = 0
            THEN [currentRegion |-> "", regionCount |-> 0, out |-> <<>>]
            ELSE LET t == s[i]
                     prev == f[i - 1]
                     new == t.region # prev.currentRegion
                     cnt == IF new THEN 0 ELSE prev.regionCount
                     o1 == IF new
                           THEN Append(prev.out,
                                       [region |-> t.region, entries |-> <<>>])
                           ELSE prev.out
                     line == [rank |-> cnt + 1, customerId |-> t.customerId,
                              finalTotal |-> t.finalTotal]
                 IN  IF cnt < 3
                     THEN [currentRegion |-> t.region,
                           regionCount |-> cnt + 1,
                           out |-> [o1 EXCEPT ![Len(o1)].entries =
                                                  Append(@, line)]]
                     ELSE [currentRegion |-> t.region,
                           regionCount |-> cnt,
                           out |-> o1]
    IN  f[Len(s)].out

\* the listing loop of stlAlgoPipeline_practice.cpp: ranks 1..5 per region
RegionalTop_practice(s) ==
    LET f[i \in 0..Len(s)] ==
            IF i = 0
            THEN [currentRegion |-> "", regionRank |-> 0, out |-> <<>>]
            ELSE LET t == s[i]
                     prev == f[i - 1]
                     new == t.region # prev.currentRegion
                     rank == IF new THEN 1 ELSE prev.regionRank
                     o1 == IF new
                           THEN Append(prev.out,
                                       [region |-> t.region, entries |-> <<>>])
                           ELSE prev.out
                     line == [rank |-> rank, customerId |-> t.customerId,
                              finalTotal |-> t.finalTotal]
                 IN  IF rank > 5
                     THEN [currentRegion |-> t.region,
                           regionRank |-> rank,
                           out |-> o1]
                     ELSE [currentRegion |-> t.region,
                           regionRank |-> rank + 1,
                           out |-> [o1 EXCEPT ![Len(o1)].entries =
                                                  Append(@, line)]]
    IN  f[Len(s)].out

\* the per-region loop of stlAlgoPipeline_practice_range.cpp
RegionalTop_range(valid, ties, rest) ==
    LET names == <<"East", "North", "South", "West">>
        group(region) ==
            LET regionTransactions ==
                    SelectSeq(valid, LAMBDA t : t.region = region)
                topCount == Min(5, Len(regionTransactions))
                ranked ==
                    IF topCount > 0 /\ Len(regionTransactions) > 1
                    THEN partial_sort(regionTransactions, topCount,
                                      "compareByFinalTotal", ties, rest)
                    ELSE regionTransactions
            IN  [region |-> region,
                 entries |-> [i \in 1..topCount |->
                                [rank |-> i,
                                 customerId |-> ranked[i].customerId,
                                 finalTotal |-> ranked[i].finalTotal]]]
        f[i \in 0..Len(names)] ==
            IF i = 0 THEN <<>>
            ELSE IF SelectSeq(valid, LAMBDA t : t.region = names[i]) = <<>>
                 THEN f[i - 1]
                 ELSE Append(f[i - 1], group(names[i]))
    IN  f[Len(names)]

sortAndRank_ref ==
    /\ impl = "ref"
    /\ ~Crashed
    /\ \E ties \in TieOrders, rest \in RestOrders :
         LET n == Len(validTransactions)
             sortedTransactions ==
                 sort(validTransactions, "compareByFinalTotal", ties)
             topTransactions ==
                 partial_sort(validTransactions, Min(10, n),
                              "compareByFinalTotal", ties, rest)
             byRegion == sort(sortedTransactions,
                              "compareByRegionThenAmount_ref", ties)
         IN  stage' = [NoStage EXCEPT
                 !.op = "sortAndRank",
                 !.valid = n,
                 !.sorted = sortedTransactions,
                 !.top = topTransactions,
                 !.listing = RegionalTop_ref(byRegion)]
    /\ UNCHANGED <<impl, rawTransactions, validTransactions, derived>>
    /\ UNCHANGED sensorVars
    /\ UNCHANGED demoVars

sortAndRank_practice ==
    /\ impl = "practice"
    /\ ~Crashed
    /\ \E ties \in TieOrders, rest \in RestOrders :
         LET n == Len(validTransactions)
             sortedTransactions ==
                 sort(validTransactions, "compareByFinalTotal", ties)
             top_count == Min(10, n)
             topTransactions ==
                 partial_sort(validTransactions, top_count,
                              "compareByFinalTotal", ties, rest)
             byRegion == sort(sortedTransactions,
                              "compareByRegionThenAmount_practice", ties)
         IN  stage' = [NoStage EXCEPT
                 !.op = "sortAndRank",
                 !.valid = n,
                 !.sorted = sortedTransactions,
                 !.top = topTransactions,
                 !.listing = RegionalTop_practice(byRegion)]
    /\ UNCHANGED <<impl, rawTransactions, validTransactions, derived>>
    /\ UNCHANGED sensorVars
    /\ UNCHANGED demoVars

\* sortedTransactions is sorted by region a second time and not read again
sortAndRank_range ==
    /\ impl = "range"
    /\ ~Crashed
    /\ \E ties \in TieOrders, rest \in RestOrders :
         LET n == Len(validTransactions)
             sortedTransactions ==
                 sort(validTransactions, "compareByFinalTotal", ties)
             top_count == Min(10, n)
             topTransactions ==
                 partial_sort(validTransactions, top_count,
                              "compareByFinalTotal", ties, rest)
         IN  stage' = [NoStage EXCEPT
                 !.op = "sortAndRank",
                 !.valid = n,
                 !.sorted = sortedTransactions,
                 !.top = topTransactions,
                 !.listing = RegionalTop_range(validTransactions, ties, rest)]
    /\ UNCHANGED <<impl, rawTransactions, validTransactions, derived>>
    /\ UNCHANGED sensorVars
    /\ UNCHANGED demoVars

RankDatasets ==
    UNION {{[k \in 1..n |->
               Transaction(k - 1, "CUST_" \o ToString(k), f[k][1], f[k][2])] :
            f \in [1..n -> RankAmounts \X RankRegions]} : n \in 0..MaxRank}

RankInit ==
    /\ SensorConstructed
    /\ DemosIdle
    /\ impl \in Impls
    /\ rawTransactions \in RankDatasets
    /\ validTransactions = <<>>
    /\ derived = FALSE
    /\ stage = NoStage

RankGenerateStep ==
    \E count \in 1..MaxCount, rd \in RankSeeds :
        /\ rawTransactions = <<>>
        /\ generateTestData(count, rd)

RankNext ==
    \/ RankGenerateStep
    \/ filterValidTransactions_ref
    \/ filterValidTransactions_practice
    \/ filterValidTransactions_range
    \/ calculateDerivedValues
    \/ sortAndRank_ref
    \/ sortAndRank_practice
    \/ sortAndRank_range

RankSpec == RankInit /\ [][RankNext]_vars

----------------------------------------------------------------------------
(* stlAlgoPractice_3.cpp: transform_parallel_sim *)

MaxData == 9         \* longest performanceData

\* a double d is held as the integer 10 * d
DataValues == {10, 25}

Max(a, b) == IF a > b THEN a ELSE b

\* [](double val) { return val * 1.1; }, the result held as 100 * d
TenPercentIncrease(val) == val * 11

\* std::vector<double> v(n)
Zeros(n) == [i \in 1..n |-> 0]

\* distance / 4 (no std::max)
ChunkSize_unclamped(distance) == distance \div 4

\* std::max(1L, distance / 4)
ChunkSize(distance) == Max(1, distance \div 4)

\* last, as an index into performanceData
SimLast == Len(performanceData) + 1

\* std::transform(performanceData.begin(), performanceData.end(),
\*                standardResults.begin(), op)
standardTransform ==
    /\ simPc = "demo"
    /\ standardResults' = [i \in 1..Len(performanceData) |->
                             TenPercentIncrease(performanceData[i])]
    /\ simPc' = "call"
    /\ UNCHANGED <<performanceData, parallelResults, chunk_size, current,
                   output, chunks, returned, resultsMatch>>
    /\ UNCHANGED sensorVars
    /\ UNCHANGED pipeVars
    /\ UNCHANGED rangeVars
    /\ UNCHANGED selectorVars
    /\ UNCHANGED counterVars

\* the call, up to the loop head
transform_parallel_sim_enter ==
    /\ simPc = "call"
    /\ parallelResults' = Zeros(Len(performanceData))
    /\ chunk_size' = ChunkSize(SimLast - 1)
    /\ current' = 1
    /\ output' = 1
    /\ simPc' = "loop"
    /\ UNCHANGED <<performanceData, standardResults, chunks, returned,
                   resultsMatch>>
    /\ UNCHANGED sensorVars
    /\ UNCHANGED pipeVars
    /\ UNCHANGED rangeVars
    /\ UNCHANGED selectorVars
    /\ UNCHANGED counterVars

\* every chunk written from d_first (output not carried over)
transform_parallel_sim_chunk_restart ==
    /\ simPc = "loop"
    /\ current # SimLast
    /\ Len(chunks) <= MaxData
    /\ LET chunk_end == current + Min(chunk_size, SimLast - current)
           len == chunk_end - current
       IN  /\ parallelResults' =
                 [i \in 1..Len(parallelResults) |->
                    IF i >= 1 /\ i < 1 + len
                    THEN TenPercentIncrease(performanceData[current + (i - 1)])
                    ELSE parallelResults[i]]
           /\ output' = 1 + len
           /\ current' = chunk_end
           /\ chunks' = Append(chunks, <<current, chunk_end>>)
    /\ UNCHANGED <<performanceData, standardResults, chunk_size, returned,
                   resultsMatch, simPc>>
    /\ UNCHANGED sensorVars
    /\ UNCHANGED pipeVars
    /\ UNCHANGED rangeVars
    /\ UNCHANGED selectorVars
    /\ UNCHANGED counterVars

\* one iteration of while (current != last)
transform_parallel_sim_chunk ==
    /\ simPc = "loop"
    /\ current # SimLast
    /\ Len(chunks) <= MaxData
    /\ LET chunk_end == current + Min(chunk_size, SimLast - current)
           len == chunk_end - current
       IN  /\ parallelResults' =
                 [i \in 1..Len(parallelResults) |->
                    IF i >= output /\ i < output + len
                    THEN TenPercentIncrease(
                             performanceData[current + (i - output)])
                    ELSE parallelResults[i]]
           /\ output' = output + len
           /\ current' = chunk_end
           /\ chunks' = Append(chunks, <<current, chunk_end>>)
    /\ UNCHANGED <<performanceData, standardResults, chunk_size, returned,
                   resultsMatch, simPc>>
    /\ UNCHANGED sensorVars
    /\ UNCHANGED pipeVars
    /\ UNCHANGED rangeVars
    /\ UNCHANGED selectorVars
    /\ UNCHANGED counterVars

\* loop exit and return output
transform_parallel_sim_return ==
    /\ simPc = "loop"
    /\ current = SimLast
    /\ returned' = output
    /\ simPc' = "returned"
    /\ UNCHANGED <<performanceData, standardResults, parallelResults,
                   chunk_size, current, output, chunks, resultsMatch>>
    /\ UNCHANGED sensorVars
    /\ UNCHANGED pipeVars
    /\ UNCHANGED rangeVars
    /\ UNCHANGED selectorVars
    /\ UNCHANGED counterVars

\* std::equal(standardResults.begin(), standardResults.end(),
\*            parallelResults.begin())
verifyResults ==
    /\ simPc = "returned"
    /\ resultsMatch' = (\A i \in 1..Len(standardResults) :
                          standardResults[i] = parallelResults[i])
    /\ simPc' = "done"
    /\ UNCHANGED <<performanceData, standardResults, parallelResults,
                   chunk_size, current, output, chunks, returned>>
    /\ UNCHANGED sensorVars
    /\ UNCHANGED pipeVars
    /\ UNCHANGED rangeVars
    /\ UNCHANGED selectorVars
    /\ UNCHANGED counterVars

SimInit ==
    /\ SensorConstructed
    /\ PipelineConstructed
    /\ impl = "ref"
    /\ RangeIdle
    /\ SelectorIdle
    /\ CounterConstructed
    /\ performanceData \in
         UNION {[1..n -> DataValues] : n \in 0..MaxData}
    /\ standardResults = Zeros(Len(performanceData))
    /\ parallelResults = <<>>
    /\ chunk_size = 0
    /\ current = 0
    /\ output = 0
    /\ chunks = <<>>
    /\ returned = 0
    /\ resultsMatch = FALSE
    /\ simPc = "demo"

SimNext ==
    \/ standardTransform
    \/ transform_parallel_sim_enter
    \/ transform_parallel_sim_chunk
    \/ transform_parallel_sim_return
    \/ verifyResults

SimSpec == SimInit /\ [][SimNext]_vars

\* the program is sequential: a step that can be taken is taken
SimLiveSpec == SimInit /\ [][SimNext]_vars /\ WF_vars(SimNext)

----------------------------------------------------------------------------
(* stl_iterator_functor_ranges.cpp: RangeIntegration *)

MaxSource  == 11     \* longest dataSource RangeSpec starts from
MaxOperand == 3      \* longest dataSource FunctorSpec starts from

SourceValues  == {7, 30}
OperandValues == {-12, 0, 7, 30}
Divisors      == {-3, 0, 5, 6}

\* a % b of two ints (truncated towards zero); b = 0 is a division by zero
Rem(a, b) ==
    IF b = 0 THEN [val |-> 0, divByZero |-> TRUE]
    ELSE LET abs(x) == IF x < 0 THEN -x ELSE x
             r == abs(a) % abs(b)
         IN  [val |-> IF a < 0 THEN -r ELSE r, divByZero |-> FALSE]

\* ScaleValue(1.5)(value): a double d is held as the integer 2 * d
ScaleValue(value) == value * 3

\* return value % divisor == 0; (no divisor != 0 &&)
IsMultipleOf_unguarded(divisor, value) ==
    [ret |-> Rem(value, divisor).val = 0,
     divByZero |-> Rem(value, divisor).divByZero]

\* IsMultipleOf(divisor)(value): what it returns, and whether it divided by 0
IsMultipleOf(divisor, value) ==
    IF divisor # 0
    THEN [ret |-> Rem(value, divisor).val = 0,
          divByZero |-> Rem(value, divisor).divByZero]
    ELSE [ret |-> FALSE, divByZero |-> FALSE]

\* [](int x) { return x % divisor == 0; }
IsMultipleLambda(divisor, x) == Rem(x, divisor).val = 0

\* RangeIntegration::generateTestData: 1..100, every 10th twice; the loop
\* pushes 11 elements for every ten values of i
GeneratedSource ==
    [k \in 1..110 |-> 10 * ((k - 1) \div 11) + Min(((k - 1) % 11) + 1, 10)]

\* std::min(size) (no 10ul)
TakeCount_all(size) == size

\* std::min(10ul, scaled.size())
TakeCount(size) == Min(10, size)

demonstrateTraditionalApproach ==
    /\ rngPc = "generated"
    /\ LET filtered == SelectSeq(dataSource,
                                 LAMBDA x : IsMultipleOf(5, x).ret)
           scaled == [i \in 1..Len(filtered) |-> ScaleValue(filtered[i])]
           takeCount == TakeCount(Len(scaled))
       IN  limited' = SubSeq(scaled, 1, takeCount)
    /\ rngPc' = "ranges"
    /\ UNCHANGED <<dataSource, pipelineResults, lazyResults, lazyCalls, it,
                   counts, applied>>
    /\ UNCHANGED sensorVars
    /\ UNCHANGED pipeVars
    /\ UNCHANGED simVars
    /\ UNCHANGED selectorVars
    /\ UNCHANGED counterVars

\* filter_view: ranges::find_if(from, end, multiplesOf5)
FindMultipleOf5(src, from) ==
    LET n == Len(src)
        f[i \in from..(n + 1)] ==
            IF i = n + 1 THEN n + 1
            ELSE IF IsMultipleOf(5, src[i]).ret THEN i ELSE f[i + 1]
    IN  f[from]

\* the range-for's begin(): take_view over a view that is not sized gives
\* counted_iterator(begin of the transform of the filter, 10)
pipeline_begin ==
    /\ rngPc = "ranges"
    /\ it' = [pos |-> FindMultipleOf5(dataSource, 1), length |-> 10]
    /\ pipelineResults' = <<>>
    /\ rngPc' = "pipeline"
    /\ UNCHANGED <<dataSource, limited, lazyResults, lazyCalls, counts,
                   applied>>
    /\ UNCHANGED sensorVars
    /\ UNCHANGED pipeVars
    /\ UNCHANGED simVars
    /\ UNCHANGED selectorVars
    /\ UNCHANGED counterVars

\* it != end, auto val = *it, the body, ++it (++current, --length)
pipeline_iterate ==
    /\ rngPc = "pipeline"
    /\ ~(it.length = 0 \/ it.pos = Len(dataSource) + 1)
    /\ pipelineResults' = Append(pipelineResults,
                                 ScaleValue(dataSource[it.pos]))
    /\ it' = [pos |-> FindMultipleOf5(dataSource, it.pos + 1),
              length |-> it.length - 1]
    /\ UNCHANGED <<dataSource, limited, lazyResults, lazyCalls, counts,
                   applied, rngPc>>
    /\ UNCHANGED sensorVars
    /\ UNCHANGED pipeVars
    /\ UNCHANGED simVars
    /\ UNCHANGED selectorVars
    /\ UNCHANGED counterVars

\* it == end: count() == 0 || base() == end
pipeline_end ==
    /\ rngPc = "pipeline"
    /\ (it.length = 0 \/ it.pos = Len(dataSource) + 1)
    /\ rngPc' = "lazy"
    /\ UNCHANGED <<dataSource, limited, pipelineResults, lazyResults,
                   lazyCalls, it, counts, applied>>
    /\ UNCHANGED sensorVars
    /\ UNCHANGED pipeVars
    /\ UNCHANGED simVars
    /\ UNCHANGED selectorVars
    /\ UNCHANGED counterVars

\* [](int x) { cout << "Processing: " ...; return x * 2; }
lazyTransform(x) == x * 2

\* [](int x) { cout << ... ; return x > 50; }
lazyFilter(x) == x > 50

\* filter_view over transform_view: find_if from a position, every element
\* on the way passed to the transform and then to the filter
LazyScan(src, from) ==
    LET n == Len(src)
        f[i \in from..(n + 1)] ==
            IF i = n + 1 THEN [pos |-> n + 1, calls |-> <<>>]
            ELSE LET here == <<[fn |-> "transform", at |-> i],
                               [fn |-> "filter", at |-> i]>>
                     rest == f[i + 1]
                 IN  IF lazyFilter(lazyTransform(src[i]))
                     THEN [pos |-> i, calls |-> here]
                     ELSE [pos |-> rest.pos, calls |-> here \o rest.calls]
    IN  f[from]

\* the views materialised when the pipeline is built
lazy_build_eager ==
    /\ rngPc = "lazy"
    /\ lazyCalls' = [k \in 1..(2 * Len(dataSource)) |->
                       [fn |-> IF k % 2 = 1 THEN "transform" ELSE "filter",
                        at |-> (k + 1) \div 2]]
    /\ lazyResults' = <<>>
    /\ rngPc' = "lazyBuilt"
    /\ UNCHANGED <<dataSource, limited, pipelineResults, it, counts, applied>>
    /\ UNCHANGED sensorVars
    /\ UNCHANGED pipeVars
    /\ UNCHANGED simVars
    /\ UNCHANGED selectorVars
    /\ UNCHANGED counterVars

\* auto lazyPipeline = dataSource | transform | filter | take(5)
lazy_build ==
    /\ rngPc = "lazy"
    /\ lazyCalls' = <<>>
    /\ lazyResults' = <<>>
    /\ rngPc' = "lazyBuilt"
    /\ UNCHANGED <<dataSource, limited, pipelineResults, it, counts, applied>>
    /\ UNCHANGED sensorVars
    /\ UNCHANGED pipeVars
    /\ UNCHANGED simVars
    /\ UNCHANGED selectorVars
    /\ UNCHANGED counterVars

\* the range-for's begin(): counted_iterator(filter_view::begin(), 5)
lazy_begin ==
    /\ rngPc = "lazyBuilt"
    /\ LET found == LazyScan(dataSource, 1)
       IN  /\ it' = [pos |-> found.pos, length |-> 5]
           /\ lazyCalls' = lazyCalls \o found.calls
    /\ rngPc' = "lazyLoop"
    /\ UNCHANGED <<dataSource, limited, pipelineResults, lazyResults, counts,
                   applied>>
    /\ UNCHANGED sensorVars
    /\ UNCHANGED pipeVars
    /\ UNCHANGED simVars
    /\ UNCHANGED selectorVars
    /\ UNCHANGED counterVars

\* it != end, auto val = *it (the transform is called again), the body,
\* ++it: the filter iterator searches on, then --length
lazy_iterate ==
    /\ rngPc = "lazyLoop"
    /\ ~(it.length = 0 \/ it.pos = Len(dataSource) + 1)
    /\ LET found == LazyScan(dataSource, it.pos + 1)
       IN  /\ lazyResults' = Append(lazyResults,
                                    lazyTransform(dataSource[it.pos]))
           /\ lazyCalls' = lazyCalls \o
                           <<[fn |-> "transform", at |-> it.pos]>> \o
                           found.calls
           /\ it' = [pos |-> found.pos, length |-> it.length - 1]
    /\ UNCHANGED <<dataSource, limited, pipelineResults, counts, applied,
                   rngPc>>
    /\ UNCHANGED sensorVars
    /\ UNCHANGED pipeVars
    /\ UNCHANGED simVars
    /\ UNCHANGED selectorVars
    /\ UNCHANGED counterVars

lazy_end ==
    /\ rngPc = "lazyLoop"
    /\ (it.length = 0 \/ it.pos = Len(dataSource) + 1)
    /\ rngPc' = "done"
    /\ UNCHANGED <<dataSource, limited, pipelineResults, lazyResults,
                   lazyCalls, it, counts, applied>>
    /\ UNCHANGED sensorVars
    /\ UNCHANGED pipeVars
    /\ UNCHANGED simVars
    /\ UNCHANGED selectorVars
    /\ UNCHANGED counterVars

\* count_if with the function object and with the lambda; the program's
\* divisor is 6
demonstrateFunctionObjectAdvantages(divisor) ==
    /\ rngPc = "functor"
    /\ divisor # 0
    /\ counts' = [divisor |-> divisor,
                  count1 |-> Len(SelectSeq(dataSource,
                               LAMBDA x : IsMultipleOf(divisor, x).ret)),
                  count2 |-> Len(SelectSeq(dataSource,
                               LAMBDA x : IsMultipleLambda(divisor, x)))]
    /\ rngPc' = "counted"
    /\ UNCHANGED <<dataSource, limited, pipelineResults, lazyResults,
                   lazyCalls, it, applied>>
    /\ UNCHANGED sensorVars
    /\ UNCHANGED pipeVars
    /\ UNCHANGED simVars
    /\ UNCHANGED selectorVars
    /\ UNCHANGED counterVars

\* one call IsMultipleOf(divisor)(value)
IsMultipleOfCall(divisor, value) ==
    /\ rngPc \in {"functor", "counted"}
    /\ applied' = [divisor |-> divisor, value |-> value,
                   ret |-> IsMultipleOf(divisor, value).ret,
                   divByZero |-> IsMultipleOf(divisor, value).divByZero]
    /\ UNCHANGED <<dataSource, limited, pipelineResults, lazyResults,
                   lazyCalls, it, counts, rngPc>>
    /\ UNCHANGED sensorVars
    /\ UNCHANGED pipeVars
    /\ UNCHANGED simVars
    /\ UNCHANGED selectorVars
    /\ UNCHANGED counterVars

RangeInit ==
    /\ SensorConstructed
    /\ PipelineConstructed
    /\ impl = "ref"
    /\ SimIdle
    /\ SelectorIdle
    /\ CounterConstructed
    /\ dataSource \in
         UNION {[1..n -> SourceValues] : n \in 0..MaxSource}
           \cup {GeneratedSource}
    /\ RangeConstructed
    /\ rngPc = "generated"

RangeNext ==
    \/ demonstrateTraditionalApproach
    \/ pipeline_begin
    \/ pipeline_iterate
    \/ pipeline_end
    \/ lazy_build
    \/ lazy_begin
    \/ lazy_iterate
    \/ lazy_end

RangeSpec == RangeInit /\ [][RangeNext]_vars

FunctorInit ==
    /\ SensorConstructed
    /\ PipelineConstructed
    /\ impl = "ref"
    /\ SimIdle
    /\ SelectorIdle
    /\ CounterConstructed
    /\ dataSource \in
         UNION {[1..n -> OperandValues] : n \in 0..MaxOperand}
    /\ RangeConstructed
    /\ rngPc = "functor"

FunctorNext ==
    \/ \E divisor \in Divisors : demonstrateFunctionObjectAdvantages(divisor)
    \/ \E divisor \in Divisors, value \in OperandValues :
          IsMultipleOfCall(divisor, value)

FunctorSpec == FunctorInit /\ [][FunctorNext]_vars

----------------------------------------------------------------------------
(* sample4.cpp: ContainerSelector::analyzeRequirements *)

AccessPattern ==
    {"FREQUENT_FRONT_BACK", "FREQUENT_MIDDLE", "FREQUENT_RANDOM_ACCESS",
     "FREQUENT_SEARCH", "ORDERED_ITERATION", "PRIORITY_PROCESSING",
     "UNIQUE_ELEMENTS", "KEY_VALUE_PAIRS"}

ExpectedSizes == {0, 9999, 10000, 50000}

\* rec.containerType of the switch; the other three fields are fixed texts
\* chosen in the same branch
containerTypeFor(pattern, needsOrder, uniqueElements, expectedSize) ==
    CASE pattern = "FREQUENT_FRONT_BACK" ->
             IF needsOrder /\ expectedSize < 10000
             THEN "std::deque<T>" ELSE "std::list<T>"
      [] pattern = "FREQUENT_MIDDLE" -> "std::list<T>"
      [] pattern = "FREQUENT_RANDOM_ACCESS" -> "std::vector<T>"
      [] pattern = "FREQUENT_SEARCH" ->
             IF needsOrder
             THEN "std::set<T> or std::map<K,V>"
             ELSE "std::unordered_set<T> or std::unordered_map<K,V>"
      [] pattern = "PRIORITY_PROCESSING" -> "std::priority_queue<T>"
      [] OTHER -> "std::vector<T>"

analyzeRequirements(pattern, needsOrder, uniqueElements, expectedSize) ==
    /\ request' = [pattern |-> pattern, needsOrder |-> needsOrder,
                   uniqueElements |-> uniqueElements,
                   expectedSize |-> expectedSize]
    /\ rec' = [containerType |->
                 containerTypeFor(pattern, needsOrder, uniqueElements,
                                  expectedSize)]
    /\ UNCHANGED sensorVars
    /\ UNCHANGED pipeVars
    /\ UNCHANGED simVars
    /\ UNCHANGED rangeVars
    /\ UNCHANGED counterVars

SelectInit ==
    /\ SensorConstructed
    /\ PipelineConstructed
    /\ impl = "ref"
    /\ SimIdle
    /\ RangeIdle
    /\ SelectorIdle
    /\ CounterConstructed

SelectNext ==
    \E pattern \in AccessPattern, needsOrder \in BOOLEAN,
       uniqueElements \in BOOLEAN, expectedSize \in ExpectedSizes :
        analyzeRequirements(pattern, needsOrder, uniqueElements, expectedSize)

SelectSpec == SelectInit /\ [][SelectNext]_vars

----------------------------------------------------------------------------
(* stl_iterator_functor_2.cpp: FrequencyCounter *)

MaxCounted == 4      \* operator() calls between two resets
MaxResets  == 1      \* reset() calls in a behaviour

CounterValues == {1, 42, 77}

\* void operator()(int value) const
operator_call(value) ==
    /\ Len(sinceReset) < MaxCounted
    /\ m_frequencies' =
         [k \in DOMAIN m_frequencies \cup {value} |->
            IF k = value
            THEN (IF value \in DOMAIN m_frequencies
                  THEN m_frequencies[value] ELSE 0) + 1
            ELSE m_frequencies[k]]
    /\ totalCount' = totalCount + 1
    /\ sinceReset' = Append(sinceReset, value)
    /\ UNCHANGED <<resets, query>>
    /\ UNCHANGED sensorVars
    /\ UNCHANGED pipeVars
    /\ UNCHANGED simVars
    /\ UNCHANGED rangeVars
    /\ UNCHANGED selectorVars

\* what getFrequency(value) returns: find, then it->second or 0
getFrequencyResult(value) ==
    IF value \in DOMAIN m_frequencies THEN m_frequencies[value] ELSE 0

\* return m_frequencies[value]; (operator[] for find)
getFrequency_bracket(value) ==
    /\ query' = [value |-> value, ret |-> getFrequencyResult(value),
                 asked |-> TRUE]
    /\ m_frequencies' =
         [k \in DOMAIN m_frequencies \cup {value} |->
            IF k \in DOMAIN m_frequencies THEN m_frequencies[k] ELSE 0]
    /\ UNCHANGED <<totalCount, sinceReset, resets>>
    /\ UNCHANGED sensorVars
    /\ UNCHANGED pipeVars
    /\ UNCHANGED simVars
    /\ UNCHANGED rangeVars
    /\ UNCHANGED selectorVars

getFrequency(value) ==
    /\ query' = [value |-> value, ret |-> getFrequencyResult(value),
                 asked |-> TRUE]
    /\ UNCHANGED <<m_frequencies, totalCount, sinceReset, resets>>
    /\ UNCHANGED sensorVars
    /\ UNCHANGED pipeVars
    /\ UNCHANGED simVars
    /\ UNCHANGED rangeVars
    /\ UNCHANGED selectorVars

reset ==
    /\ resets < MaxResets
    /\ m_frequencies' = <<>>
    /\ totalCount' = 0
    /\ sinceReset' = <<>>
    /\ resets' = resets + 1
    /\ UNCHANGED query
    /\ UNCHANGED sensorVars
    /\ UNCHANGED pipeVars
    /\ UNCHANGED simVars
    /\ UNCHANGED rangeVars
    /\ UNCHANGED selectorVars

CounterInit ==
    /\ SensorConstructed
    /\ PipelineConstructed
    /\ impl = "ref"
    /\ SimIdle
    /\ RangeIdle
    /\ SelectorIdle
    /\ CounterConstructed

CounterNext ==
    \/ \E value \in CounterValues : operator_call(value)
    \/ \E value \in CounterValues : getFrequency(value)
    \/ reset

CounterSpec == CounterInit /\ [][CounterNext]_vars

----------------------------------------------------------------------------
(* Properties of the later pipeline stages *)

\* C11: no stage divides by a zero element count or dereferences an end
\* iterator: filterValidTransactions never divides by rawTransactions.size()
\* = 0, and generateStatistics never divides by validTransactions.size() = 0
\* nor reads through the iterators minmax_element returns for an empty range.
EdgeCasesHandled ==
    /\ stage.op = "filterValidTransactions" => stage.rate[2] # 0
    /\ stage.op = "generateStatistics" =>
         /\ stage.average[2] # 0
         /\ stage.highRate[2] # 0
         /\ ~stage.ub
    /\ ~Crashed


Occurrences(s, x) == Cardinality({i \in 1..Len(s) : s[i] = x})

IsPermutation(a, b) ==
    /\ Len(a) = Len(b)
    /\ \A i \in 1..Len(a) : Occurrences(a, a[i]) = Occurrences(b, a[i])

\* C12: sortAndRank leaves validTransactions as it was; its sorted copy is a
\* permutation of validTransactions with finalTotal never increasing, and
\* the first min(10, n) finalTotal values of the partially sorted copy are
\* those of the sorted copy.
SortAndRankOrders ==
    [][stage'.op = "sortAndRank" =>
         LET n == Len(validTransactions)
         IN  /\ validTransactions' = validTransactions
             /\ IsPermutation(stage'.sorted, validTransactions)
             /\ \A i \in 1..(n - 1) :
                  stage'.sorted[i].finalTotal >= stage'.sorted[i + 1].finalTotal
             /\ Len(stage'.top) = n
             /\ \A i \in 1..Min(10, n) :
                  stage'.top[i].finalTotal = stage'.sorted[i].finalTotal]_vars

\* more than ten valid transactions, not in order beforehand, were ranked
RankedMoreThanTen ==
    /\ stage.op = "sortAndRank"
    /\ derived
    /\ Len(validTransactions) > 10
    /\ stage.sorted # validTransactions
    /\ stage.top # stage.sorted

\* C13: the regional listing of the reference solution names every region
\* that has a valid transaction once, in alphabetical order, each with at
\* most 3 entries: the largest finalTotal values of the region, largest
\* first.
RegionalListingIsTopThree ==
    (impl = "ref" /\ stage.op = "sortAndRank") =>
        LET L == stage.listing
            inRegion(r) == SelectSeq(validTransactions,
                                     LAMBDA t : t.region = r)
            above(r, v) == Cardinality({i \in 1..Len(inRegion(r)) :
                                          inRegion(r)[i].finalTotal > v})
            atLeast(r, v) == Cardinality({i \in 1..Len(inRegion(r)) :
                                            inRegion(r)[i].finalTotal >= v})
        IN  /\ \A i \in 1..(Len(L) - 1) :
                 RegionRank(L[i].region) < RegionRank(L[i + 1].region)
            /\ {L[i].region : i \in 1..Len(L)} =
                 {validTransactions[i].region :
                    i \in 1..Len(validTransactions)}
            /\ \A i \in 1..Len(L) :
                 LET e == L[i].entries
                     r == L[i].region
                 IN  /\ Len(e) = Min(3, Len(inRegion(r)))
                     /\ \A j \in 1..Len(e) :
                          /\ above(r, e[j].finalTotal) <= j - 1
                          /\ atLeast(r, e[j].finalTotal) >= j

\* two regions were listed, one of them cut down to its top three
ListedTwoRegionsOneCut ==
    /\ impl = "ref"
    /\ stage.op = "sortAndRank"
    /\ Len(stage.listing) >= 2
    /\ \E i \in 1..Len(stage.listing) :
          /\ Len(stage.listing[i].entries) = 3
          /\ Len(SelectSeq(validTransactions,
                           LAMBDA t : t.region = stage.listing[i].region)) > 3
          /\ stage.listing[i].entries[1].finalTotal >
               stage.listing[i].entries[3].finalTotal


\* C14: transform_parallel_sim writes what std::transform writes for the
\* same input, for every input length, returns d_first + (last - first),
\* and "Results match" is Yes.
ParallelSimMatchesTransform ==
    /\ simPc \in {"returned", "done"} =>
         /\ parallelResults = [i \in 1..Len(performanceData) |->
                                 TenPercentIncrease(performanceData[i])]
         /\ parallelResults = standardResults
         /\ returned = 1 + Len(performanceData)
    /\ simPc = "done" => resultsMatch

\* a length not divisible by 4 and longer than one chunk went through
MatchedOnUnevenLength ==
    /\ simPc = "done"
    /\ resultsMatch
    /\ Len(performanceData) % 4 # 0
    /\ Len(chunks) > 4
    /\ \E i, j \in 1..Len(performanceData) :
          performanceData[i] # performanceData[j]

ChunksInOrder ==
    /\ \A k \in 1..Len(chunks) :
         /\ chunks[k][1] < chunks[k][2]
         /\ chunks[k][2] <= SimLast
         /\ chunks[k][1] = IF k = 1 THEN 1 ELSE chunks[k - 1][2]
    /\ simPc \in {"returned", "done"} =>
         IF chunks = <<>> THEN SimLast = 1
         ELSE chunks[Len(chunks)][2] = SimLast

\* C19: the chunk loop terminates for every input length, and its chunks are
\* non-empty, contiguous, in source order, never past last, and cover the
\* input exactly once.
ChunkLoopTerminatesCoveringOnce ==
    /\ []ChunksInOrder
    /\ <>(simPc = "done")

\* nine elements went through in chunks of 2, 2, 2, 2 and 1
FiveChunksOfNine ==
    /\ simPc = "done"
    /\ Len(performanceData) = 9
    /\ chunks = <<(<<1, 3>>), (<<3, 5>>), (<<5, 7>>), (<<7, 9>>), (<<9, 10>>)>>


\* C15: the pipeline dataSource | filter(IsMultipleOf(5)) |
\* transform(ScaleValue(1.5)) | take(10) yields the values of the three-step
\* traditional processing of the same dataSource, in the same order.
PipelineMatchesTraditional ==
    rngPc \in {"lazy", "lazyBuilt", "lazyLoop", "done"} =>
        pipelineResults = limited

\* more than ten multiples of 5 were cut down to ten, others were dropped
PipelineCutToTen ==
    /\ rngPc = "lazy"
    /\ Len(pipelineResults) = 10
    /\ Len(SelectSeq(dataSource, LAMBDA x : x % 5 = 0)) > 10
    /\ \E i \in 1..Len(dataSource) : dataSource[i] % 5 # 0
    /\ pipelineResults[1] # pipelineResults[10]

\* positions of dataSource whose doubled value is greater than 50
PassingPositions ==
    SelectSeq([i \in 1..Len(dataSource) |-> i],
              LAMBDA i : 2 * dataSource[i] > 50)

LazyYieldsFirstFive ==
    /\ rngPc = "lazyBuilt" => lazyCalls = <<>>
    /\ rngPc = "done" =>
         /\ lazyResults = [k \in 1..Min(5, Len(PassingPositions)) |->
                             2 * dataSource[PassingPositions[k]]]
         /\ dataSource = GeneratedSource =>
              lazyResults = <<52, 54, 56, 58, 60>>

\* C16 as stated: nothing is processed when the lazy pipeline is built, it
\* yields the first five doubled values greater than 50 (52, 54, 56, 58, 60
\* for the generated data), and no source element after the one that yields
\* the fifth result is passed to the transform or the filter.
LazyStopsAtFifthResult ==
    /\ LazyYieldsFirstFive
    /\ (rngPc = "done" /\ Len(PassingPositions) >= 5) =>
         \A c \in 1..Len(lazyCalls) : lazyCalls[c].at <= PassingPositions[5]

\* C16 amended: as stated, except that after the fifth result the elements
\* up to and including the next one whose doubled value is greater than 50
\* (or up to the end of dataSource when there is none) are still passed to
\* the transform and the filter; no element after that one is.
LazyStopsAtNextPassing ==
    /\ LazyYieldsFirstFive
    /\ (rngPc = "done" /\ Len(PassingPositions) >= 5) =>
         LET stop == IF Len(PassingPositions) >= 6 THEN PassingPositions[6]
                     ELSE Len(dataSource)
         IN  /\ \A c \in 1..Len(lazyCalls) : lazyCalls[c].at <= stop
             /\ \A i \in 1..stop : \E c \in 1..Len(lazyCalls) :
                   /\ lazyCalls[c].at = i
                   /\ lazyCalls[c].fn = "filter"

\* the generated data went through: five results, and the element after the
\* fifth result's (the second 30) was processed
LazyConsumedGenerated ==
    /\ rngPc = "done"
    /\ dataSource = GeneratedSource
    /\ lazyResults = <<52, 54, 56, 58, 60>>
    /\ \E c \in 1..Len(lazyCalls) : lazyCalls[c].at = PassingPositions[5] + 1
    /\ \A c \in 1..Len(lazyCalls) : lazyCalls[c].at <= PassingPositions[5] + 1

\* C18: IsMultipleOf(d) answers as the lambda x % d == 0 does when d != 0, so
\* that the two counts over dataSource are equal; for d = 0 it returns false;
\* it never divides by zero.
FunctorAgreesWithLambda ==
    /\ rngPc = "counted" => counts.count1 = counts.count2
    /\ applied # NoApplied =>
         /\ applied.divisor # 0 =>
              applied.ret = IsMultipleLambda(applied.divisor, applied.value)
         /\ applied.divisor = 0 => ~applied.ret
         /\ ~applied.divByZero

\* after a count with multiples in it, the functor was called with divisor 0
CalledWithDivisorZero ==
    /\ rngPc = "counted"
    /\ counts.count1 > 0
    /\ counts.count1 < Len(dataSource)
    /\ applied # NoApplied
    /\ applied.divisor = 0
    /\ applied.value # 0


\* C17: analyzeRequirements recommends, for every AccessPattern, the
\* container family the printed decision tree names for that need:
\* KEY_VALUE_PAIRS map/unordered_map, UNIQUE_ELEMENTS set/unordered_set,
\* PRIORITY_PROCESSING priority_queue, FREQUENT_MIDDLE list,
\* FREQUENT_RANDOM_ACCESS vector.
RecommendsDecisionTreeFamily ==
    /\ request.pattern = "KEY_VALUE_PAIRS" =>
         rec.containerType \in
           {"std::map<K,V>", "std::unordered_map<K,V>",
            "std::set<T> or std::map<K,V>",
            "std::unordered_set<T> or std::unordered_map<K,V>"}
    /\ request.pattern = "UNIQUE_ELEMENTS" =>
         rec.containerType \in
           {"std::set<T>", "std::unordered_set<T>",
            "std::set<T> or std::map<K,V>",
            "std::unordered_set<T> or std::unordered_map<K,V>"}
    /\ request.pattern = "PRIORITY_PROCESSING" =>
         rec.containerType = "std::priority_queue<T>"
    /\ request.pattern = "FREQUENT_MIDDLE" =>
         rec.containerType = "std::list<T>"
    /\ request.pattern = "FREQUENT_RANDOM_ACCESS" =>
         rec.containerType = "std::vector<T>"

SumOfFrequencies ==
    LET keys == <<1, 42, 77>>
        f[i \in 0..Len(keys)] ==
            IF i = 0 THEN 0
            ELSE f[i - 1] + (IF keys[i] \in DOMAIN m_frequencies
                             THEN m_frequencies[keys[i]] ELSE 0)
    IN  f[Len(keys)]

\* C20: totalCount is the sum of the stored frequencies and the number of
\* operator() calls since the last reset; getFrequency(v) is the number of
\* those calls made with v, 0 for a value not seen, which it does not
\* insert; reset() gives back the initial state.
CounterStateConsistent ==
    /\ DOMAIN m_frequencies \subseteq CounterValues
    /\ totalCount = SumOfFrequencies
    /\ totalCount = Len(sinceReset)
    /\ \A v \in CounterValues :
         getFrequencyResult(v) = Occurrences(sinceReset, v)
    /\ DOMAIN m_frequencies = {sinceReset[i] : i \in 1..Len(sinceReset)}
    /\ sinceReset = <<>> => (m_frequencies = <<>> /\ totalCount = 0)

\* after a reset, a value counted twice and another never seen was asked for
CountedAgainAfterReset ==
    /\ resets = 1
    /\ totalCount = 3
    /\ \E v \in CounterValues : getFrequencyResult(v) = 2
    /\ query.asked
    /\ query.value \notin DOMAIN m_frequencies
    /\ query.ret = 0

====
